---- MODULE Spec2Model ----
(***************************************************************************)
(* Model of analyze_results.py: the post-processor of HL7 FHIR Validator   *)
(* output.  Strings whose characters matter (wildcard patterns, resource   *)
(* ids, paths, messages, line/column attribute values) are sequences of    *)
(* one-character strings.                                                  *)
(*                                                                         *)
(* Four specifications share the module:                                   *)
(*   Spec          the whole script: option check, rule loading, outcome   *)
(*                 reconciliation, result reporting and exit status, with  *)
(*                 the default verbosity level                             *)
(*   SpecStartup   the option check and the rule loading under every       *)
(*                 choice of fail level and verbosity level                *)
(*   SpecWildcard  IgnoredIssues._wildcardToRegex and the match of the     *)
(*                 compiled expression against a string                    *)
(*   SpecResolve   XMLElementIdMapper over a document, followed by the     *)
(*                 span lookup of IgnoredIssues.hasForId                   *)
(***************************************************************************)
EXTENDS Integers, Sequences, FiniteSets, TLC

VARIABLES
    \* ---- the script (Spec)
    pc,                  \* position of the script
    fail_level,          \* issue_levels[options.fail_at]
    verbosity_level,     \* issue_levels[options.verbosity_level]
    ignored_issues,      \* IgnoredIssues.ignored_issues (insertion ordered)
    n_loaded,            \* number of rule documents loaded so far
    resource_id,         \* IgnoredIssues.resource_id
    issues_for_resource, \* IgnoredIssues.issues_for_resource
    element_ids,         \* IgnoredIssues.element_ids
    ign_issues,          \* IgnoredIssues.issues
    res_issues,          \* ResourceIssues.issues of the outcome at hand
    outcome,             \* the OperationOutcome at hand (input)
    idx,                 \* number of its issues handled so far
    results,             \* the list "issues" of finished ResourceIssues
    success,             \* the variable "success" of the reporting loop
    exit_status,         \* exit status of the process, NoStatus while running
    \* ---- SpecWildcard
    wildcard_string, subject, compiled, matchResult, wpc,
    \* ---- SpecResolve
    document, cursor, elements, xml_element_ids, query, found, rpc

mainVars == <<pc, fail_level, verbosity_level, ignored_issues, n_loaded,
              resource_id, issues_for_resource, element_ids, ign_issues,
              res_issues, outcome, idx, results, success, exit_status>>
wcVars   == <<wildcard_string, subject, compiled, matchResult, wpc>>
rsVars   == <<document, cursor, elements, xml_element_ids, query, found, rpc>>
vars     == <<mainVars, wcVars, rsVars>>

None     == <<"None">>      \* Python's None where a string is expected
NoStatus == 0 - 1

(***************************************************************************)
(* Generic sequence helpers.                                               *)
(***************************************************************************)
RECURSIVE SeqsUpTo(_, _)
SeqsUpTo(S, n) ==
    IF n = 0 THEN {<<>>}
    ELSE LET shorter == SeqsUpTo(S, n - 1)
         IN  shorter \cup {Append(s, x) : s \in {t \in shorter : Len(t) = n - 1}, x \in S}

\* str.startswith
startswith(text, prefix) ==
    /\ Len(prefix) <= Len(text)
    /\ SubSeq(text, 1, Len(prefix)) = prefix

\* str.find(ch) != -1
contains(s, ch) == \E i \in 1..Len(s) : s[i] = ch

\* str.replace for a one-character needle
RECURSIVE replace(_, _, _)
replace(s, ch, rep) ==
    IF s = <<>> THEN <<>>
    ELSE (IF Head(s) = ch THEN rep ELSE <<Head(s)>>) \o replace(Tail(s), ch, rep)

(***************************************************************************)
(* IgnoredIssues._wildcardToRegex: the text handed to re.compile.          *)
(***************************************************************************)
wildcardToRegex(w) ==
    <<"^">>
    \o replace(replace(replace(replace(w, ".", <<"\\", ".">>),
                               "*", <<".", "*", "?">>),
                       "[", <<"\\", "[">>),
               "]", <<"\\", "]">>)
    \o <<"$">>

(***************************************************************************)
(* Python's re on the expressions wildcardToRegex can produce: an          *)
(* alternation (|) of branches, each a sequence of ^, $, an escaped        *)
(* character, the lazy run .*? or a literal character.  The expression is  *)
(* compiled with re.MULTILINE and used through Pattern.match, which        *)
(* anchors at position 0 only and accepts a match of a prefix.             *)
(***************************************************************************)
Tok(t, c) == [t |-> t, c |-> c]

RECURSIVE tokenize(_)
tokenize(r) ==
    IF r = <<>> THEN <<>>
    ELSE IF Head(r) = "\\" /\ Len(r) >= 2
         THEN <<Tok("lit", r[2])>> \o tokenize(SubSeq(r, 3, Len(r)))
    ELSE IF Len(r) >= 3 /\ r[1] = "." /\ r[2] = "*" /\ r[3] = "?"
         THEN <<Tok("run", ".")>> \o tokenize(SubSeq(r, 4, Len(r)))
    ELSE IF Head(r) = "^" THEN <<Tok("bol", "^")>> \o tokenize(Tail(r))
    ELSE IF Head(r) = "$" THEN <<Tok("eol", "$")>> \o tokenize(Tail(r))
    ELSE IF Head(r) = "|" THEN <<Tok("alt", "|")>> \o tokenize(Tail(r))
    ELSE <<Tok("lit", Head(r))>> \o tokenize(Tail(r))

\* the branches of an alternation, as token sequences
RECURSIVE branches(_)
branches(toks) ==
    IF \A i \in 1..Len(toks) : toks[i].t # "alt" THEN <<toks>>
    ELSE LET k == CHOOSE i \in 1..Len(toks) :
                      /\ toks[i].t = "alt"
                      /\ \A j \in 1..(i - 1) : toks[j].t # "alt"
         IN  <<SubSeq(toks, 1, k - 1)>> \o branches(SubSeq(toks, k + 1, Len(toks)))

\* does toks[i..] match s from (1-based) position j on, up to any position
RECURSIVE matchFrom(_, _, _, _)
matchFrom(toks, i, s, j) ==
    IF i > Len(toks) THEN TRUE
    ELSE LET tk == toks[i] IN
         CASE tk.t = "bol" ->
                  /\ (j = 1 \/ s[j - 1] = "\n")
                  /\ matchFrom(toks, i + 1, s, j)
           [] tk.t = "eol" ->
                  /\ (j = Len(s) + 1 \/ s[j] = "\n")
                  /\ matchFrom(toks, i + 1, s, j)
           [] tk.t = "run" ->
                  \E k \in j..(Len(s) + 1) :
                      /\ \A m \in j..(k - 1) : s[m] # "\n"
                      /\ matchFrom(toks, i + 1, s, k)
           [] OTHER ->
                  /\ j <= Len(s)
                  /\ s[j] = tk.c
                  /\ matchFrom(toks, i + 1, s, j + 1)

\* bool(re.compile(r, re.MULTILINE).match(s))
regexMatch(r, s) ==
    LET bs == branches(tokenize(r))
    IN  \E b \in 1..Len(bs) : matchFrom(bs[b], 1, s, 1)


(***************************************************************************)
(* SpecWildcard: a wildcard string is compiled and matched against a       *)
(* subject string.                                                         *)
(***************************************************************************)
MaxLen       == 3
PatternChars == {"a", ".", "*", "|"}
SubjectChars == {"a", "b", ".", "|"}

WcIdle ==
    /\ wildcard_string = <<>>
    /\ subject = <<>>
    /\ compiled = <<>>
    /\ matchResult = FALSE
    /\ wpc = "off"

Compile ==
    /\ wpc = "pattern"
    /\ compiled' = wildcardToRegex(wildcard_string)
    /\ wpc' = "compiled"
    /\ UNCHANGED <<wildcard_string, subject, matchResult>>

Match ==
    /\ wpc = "compiled"
    /\ matchResult' = regexMatch(compiled, subject)
    /\ wpc' = "matched"
    /\ UNCHANGED <<wildcard_string, subject, compiled>>


(***************************************************************************)
(* The script.  Data:                                                      *)
(*   rule      [message, has_message, has_reason, handled,                 *)
(*              require_occurence]                                         *)
(*   a dict    a sequence of [key, val] in insertion order                 *)
(*   ignored_issues        dict: resource regex -> dict: location regex -> *)
(*                         sequence of rules                               *)
(*   issues_for_resource   dict: location regex -> [g, p], the place in    *)
(*                         ignored_issues of the rule list the entry       *)
(*                         aliases (Python stores the list object itself)  *)
(*   an entry of an issue list: [kind, line, col, severity, text,          *)
(*                         expression], kind "Issue" for an Issue object   *)
(*                         and "dict" for a plain dictionary               *)
(***************************************************************************)
issue_levels == [fatal |-> 0, error |-> 1, warning |-> 2, information |-> 3]

PyFalse == <<"False">>     \* Python's False where a string is expected
Unknown == <<"?">>         \* the "?" put in place of a missing line or column

AllOK         == <<"All OK">>
NotOccurred   == <<"An ignored issue was provided, but the issue didn't occur">>
WithoutReason == <<"Issue ignored without providing a reason">>

Issue(line, col, severity, text, expression) ==
    [kind |-> "Issue", line |-> line, col |-> col, severity |-> severity,
     text |-> text, expression |-> expression]

\* ---- dictionaries
dictIndex(d, k) ==
    IF \E i \in 1..Len(d) : d[i].key = k
    THEN CHOOSE i \in 1..Len(d) : d[i].key = k
    ELSE 0

dictPut(d, k, v) ==
    LET i == dictIndex(d, k)
    IN  IF i = 0 THEN Append(d, [key |-> k, val |-> v])
        ELSE [d EXCEPT ![i] = [key |-> k, val |-> v]]

\* ---- ElementId
ElementId(start, end, id) == [start |-> start, end |-> end, id |-> id]

Digits == <<"0", "1", "2", "3", "4", "5", "6", "7", "8", "9">>

isDigit(c) == \E d \in 1..10 : Digits[d] = c

digitValue(c) == (CHOOSE d \in 1..10 : Digits[d] = c) - 1

\* int(s) succeeds (no ValueError): a non-empty run of decimal digits
isInt(s) == s # <<>> /\ \A i \in 1..Len(s) : isDigit(s[i])

RECURSIVE toInt(_)
toInt(s) ==
    IF s = <<>> THEN 0
    ELSE 10 * toInt(SubSeq(s, 1, Len(s) - 1)) + digitValue(s[Len(s)])

\* ElementId.has: the id, or False
has(e, line, col) ==
    IF ~(isInt(line) /\ isInt(col)) THEN PyFalse
    ELSE LET l == toInt(line)
             c == toInt(col)
         IN  IF /\ (l > e.start[1] \/ (l = e.start[1] /\ c >= e.start[2]))
                /\ (l < e.end[1]   \/ (l = e.end[1]   /\ c <= e.end[2]))
             THEN e.id
             ELSE PyFalse

\* the loop of hasForId: the value of element_id when the loop is left
RECURSIVE locate(_, _, _)
locate(eids, line, col) ==
    IF eids = <<>> THEN None
    ELSE LET element_id == has(Head(eids), line, col)
         IN  IF element_id # PyFalse THEN element_id
             ELSE IF Len(eids) = 1 THEN element_id
             ELSE locate(Tail(eids), line, col)

\* truth value of an element id (None, False and "" are false)
truthy(v) == v # None /\ v # PyFalse /\ v # <<>>

\* ---- IgnoredIssues.load, one YAML document
\* the rules of one location key appended to the list found there
newRules(rules, require_occurence) ==
    [i \in 1..Len(rules) |->
        [message           |-> rules[i].message,
         has_message       |-> rules[i].has_message,
         has_reason        |-> rules[i].has_reason,
         handled           |-> FALSE,
         require_occurence |-> require_occurence]]

RECURSIVE loadPaths(_, _, _)
loadPaths(for_resource, paths, require_occurence) ==
    IF paths = <<>> THEN for_resource
    ELSE LET path_regex == wildcardToRegex(Head(paths).path_id)
             i          == dictIndex(for_resource, path_regex)
             for_path   == IF i # 0 THEN for_resource[i].val ELSE <<>>
         IN  loadPaths(dictPut(for_resource, path_regex,
                               for_path \o newRules(Head(paths).issues, require_occurence)),
                       Tail(paths), require_occurence)

\* a faulty variant of wildcardMisuse: the sense of the occurrence flag is inverted
wildcardMisuseInverted(require_occurence, key) ==
    ~require_occurence /\ contains(key, "*")

\* "Wildcards were used to suppress an error on multiple resources, but this
\* is only allowed for errors that aren't required to occur!"
wildcardMisuse(require_occurence, key) ==
    require_occurence /\ contains(key, "*")

\* the loop over the resource keys of a document: the dictionary, and
\* whether sys.exit(1) was reached
RECURSIVE loadResources(_, _, _)
loadResources(ii, resources, require_occurence) ==
    IF resources = <<>> THEN [exit |-> FALSE, ii |-> ii]
    ELSE LET r == Head(resources) IN
         IF ~r.has_ignored_issues
         THEN loadResources(ii, Tail(resources), require_occurence)
         ELSE IF wildcardMisuse(require_occurence, r.resource_id)
         THEN [exit |-> TRUE, ii |-> ii]
         ELSE LET resource_regex == wildcardToRegex(r.resource_id)
                  i              == dictIndex(ii, resource_regex)
                  for_resource   == IF i # 0 THEN ii[i].val ELSE <<>>
              IN  loadResources(dictPut(ii, resource_regex,
                                        loadPaths(for_resource, r.paths, require_occurence)),
                                Tail(resources), require_occurence)

\* require_occurence of a document: true unless "issues should occur" is
\* present and false
requireOccurence(doc) == ~(doc.has_should_occur /\ ~doc.should_occur)

load(ii, doc) == loadResources(ii, doc.resources, requireOccurence(doc))

\* ---- IgnoredIssues.selectResourceId
resourceMatches(resource_regex, id, file_path) ==
    IF id # None
    THEN regexMatch(resource_regex, id) \/ regexMatch(resource_regex, file_path)
    ELSE regexMatch(resource_regex, file_path)

\* dict.update with the location dictionary of group g
RECURSIVE update(_, _, _, _)
update(ifr, group, g, p) ==
    IF p > Len(group) THEN ifr
    ELSE update(dictPut(ifr, group[p].key, [g |-> g, p |-> p]), group, g, p + 1)

RECURSIVE selectFrom(_, _, _, _, _)
selectFrom(ii, g, id, file_path, ifr) ==
    IF g > Len(ii) THEN ifr
    ELSE selectFrom(ii, g + 1, id, file_path,
                    IF resourceMatches(ii[g].key, id, file_path)
                    THEN update(ifr, ii[g].val, g, 1)
                    ELSE ifr)

\* the element ids the mapper returns for the checked file: every file of
\* the model holds one identified element, with id x, from line 2, column 0
\* to line 4, column 0
FileElementIds(file_path) ==
    <<ElementId(<<2, 0>>, <<4, 0>>, <<"x">>)>>

selectElementIds(ii, id, file_path) ==
    IF \E g \in 1..Len(ii) : resourceMatches(ii[g].key, id, file_path)
    THEN FileElementIds(file_path)
    ELSE <<>>

\* ---- IgnoredIssues._checkIgnoredIssue
\* does the rule take the message
ruleTakes(rule, message) == rule.has_message /\ startswith(message, rule.message)

\* is the rule list at [g, p] one the location selects
selected(ifr, location, g, p) ==
    \E e \in 1..Len(ifr) :
        /\ ifr[e].val = [g |-> g, p |-> p]
        /\ regexMatch(ifr[e].key, location)

\* rule r of the list at [g, p] is hit by the message at the location
hit(ii, ifr, message, location, g, p, r) ==
    /\ selected(ifr, location, g, p)
    /\ ruleTakes(ii[g].val[p].val[r], message)

\* the places <<g, p, r>> of all rules
rulePlaces(ii) ==
    UNION {UNION {{<<g, p, r>> : r \in 1..Len(ii[g].val[p].val)}
                  : p \in 1..Len(ii[g].val)}
           : g \in 1..Len(ii)}

hits(ii, ifr, message, location) ==
    {t \in rulePlaces(ii) : hit(ii, ifr, message, location, t[1], t[2], t[3])}

ruleAt(ii, t) == ii[t[1]].val[t[2]].val[t[3]]

\* the rule set with "handled" set on the rules at the places in H
markHandled(ii, H) ==
    [g \in 1..Len(ii) |->
        [key |-> ii[g].key,
         val |-> [p \in 1..Len(ii[g].val) |->
                    [key |-> ii[g].val[p].key,
                     val |-> [r \in 1..Len(ii[g].val[p].val) |->
                                IF <<g, p, r>> \in H
                                THEN [ii[g].val[p].val[r] EXCEPT !.handled = TRUE]
                                ELSE ii[g].val[p].val[r]]]]]]

Repeat(x, n) == [i \in 1..n |-> x]

\* the dictionary appended for a rule without a reason
reasonless(location) ==
    [kind |-> "dict", line |-> Unknown, col |-> Unknown, severity |-> "fatal",
     text |-> WithoutReason, expression |-> location]

\* result, and the rule set and IgnoredIssues.issues it leaves
checkIgnoredIssue(ii, ifr, ign, message, location) ==
    LET H == hits(ii, ifr, message, location)
        n == Cardinality({t \in H : ~ruleAt(ii, t).has_reason})
    IN  [result |-> H # {},
         ii     |-> markHandled(ii, H),
         ign    |-> ign \o Repeat(reasonless(location), n)]

hasForExpression(ii, ifr, ign, message, expression) ==
    checkIgnoredIssue(ii, ifr, ign, message, expression)

hasForId(ii, ifr, eids, ign, message, line, col) ==
    LET element_id == locate(eids, line, col)
    IN  IF truthy(element_id)
        THEN checkIgnoredIssue(ii, ifr, ign, message, element_id)
        ELSE [result |-> FALSE, ii |-> ii, ign |-> ign]

\* ---- ResourceIssues.addIssue
addIssue(ii, ifr, eids, ign, res, i) ==
    IF i.severity \notin DOMAIN issue_levels
    THEN [raised |-> TRUE, ii |-> ii, ign |-> ign, res |-> res]
    ELSE LET e == hasForExpression(ii, ifr, ign, i.text, i.expression)
             d == IF e.result THEN e
                  ELSE hasForId(e.ii, ifr, eids, e.ign, i.text, i.line, i.col)
         IN  [raised |-> FALSE, ii |-> d.ii, ign |-> d.ign,
              res |-> IF d.result THEN res
                      ELSE Append(res, Issue(i.line, i.col, i.severity, i.text, i.expression))]

\* ---- IgnoredIssues.finishSelectedId
\* the rules of the selected lists that were required and did not occur
overdue(ii, ifr) ==
    {t \in rulePlaces(ii) :
        /\ \E e \in 1..Len(ifr) : ifr[e].val = [g |-> t[1], p |-> t[2]]
        /\ ~ruleAt(ii, t).handled
        /\ ruleAt(ii, t).require_occurence}

finishSelectedId(ii, ifr, ign, id) ==
    ign \o Repeat(Issue(Unknown, Unknown, "fatal", NotOccurred, id),
                  Cardinality(overdue(ii, ifr)))

\* ---- the main loop over the issues of an outcome: is the issue the
\* "All OK" the Validator puts out when nothing is wrong
isAllOK(o, i) ==
    i.severity = "information" /\ i.text = AllOK /\ Len(o.issues) = 1

\* ---- the body of the main loop as a whole: the rounds k.. of the loop over
\* the issues of outcome o, from w = [raised, ii, ign, res]
RECURSIVE addIssues(_, _, _, _, _)
addIssues(w, ifr, eids, o, k) ==
    IF k > Len(o.issues) \/ w.raised THEN w
    ELSE addIssues(IF isAllOK(o, o.issues[k]) THEN w
                   ELSE addIssue(w.ii, ifr, eids, w.ign, w.res, o.issues[k]),
                   ifr, eids, o, k + 1)

\* ResourceIssues.issues of outcome o after finish(), under the rule set ii
processOutcome(ii, o) ==
    LET ifr  == selectFrom(ii, 1, o.id, o.file_path, <<>>)
        eids == selectElementIds(ii, o.id, o.file_path)
        w    == addIssues([raised |-> FALSE, ii |-> ii, ign |-> <<>>, res |-> <<>>],
                          ifr, eids, o, 1)
    IN  w.res \o finishSelectedId(w.ii, ifr, w.ign, o.id)

\* ---- the reporting loop
RECURSIVE flatten(_)
flatten(rs) ==
    IF rs = <<>> THEN <<>> ELSE Head(rs).issues \o flatten(Tail(rs))

\* issue.severity raises AttributeError on a dictionary
raisesAt(all) ==
    IF \E k \in 1..Len(all) : all[k].kind = "dict"
    THEN CHOOSE k \in 1..Len(all) :
             /\ all[k].kind = "dict"
             /\ \A j \in 1..(k - 1) : all[j].kind # "dict"
    ELSE 0

\* a faulty variant of fails: an issue at the fail level itself passes
failsBelow(issue, level) == issue_levels[issue.severity] < level

\* the issue is at the fail level or graver
fails(issue, level) == issue_levels[issue.severity] <= level

\* "success" after the issues all[1..n] were looked at
successAfter(all, n, level) == \A k \in 1..n : ~fails(all[k], level)


(***************************************************************************)
(* Inputs of the script.                                                   *)
(***************************************************************************)
MaxDocs     == 2     \* rule documents loaded in a run
MaxOutcomes == 2     \* OperationOutcomes of the Validator output

LevelChoices   == {"error", "warning", "information"}   \* choices of -a and -v
DefaultVerbose == {"information"}                       \* default of -v

ResourceKeys == {<<"p">>, <<"*">>}

\* location key and presence of a reason of the rules
RuleInputs == {[path_id |-> <<"x">>, has_reason |-> TRUE],
               [path_id |-> <<"x">>, has_reason |-> FALSE],
               [path_id |-> <<"*">>, has_reason |-> TRUE]}

\* a YAML document: "issues should occur" absent or false, and one resource
\* key with one location key with one rule, for messages starting with m
Docs ==
    {[has_should_occur |-> o,
      should_occur     |-> FALSE,
      resources        |->
          <<[resource_id        |-> k,
             has_ignored_issues |-> TRUE,
             paths              |->
                 <<[path_id |-> r.path_id,
                    issues  |-> <<[message     |-> <<"m">>,
                                   has_message |-> TRUE,
                                   has_reason  |-> r.has_reason]>>]>>]>>]
     : o \in BOOLEAN, k \in ResourceKeys, r \in RuleInputs}

\* the OperationOutcomes of the Validator output, as the main loop extracts
\* them: the files f, i and s hold a resource with id p, the file n a
\* resource without id
Outcomes ==
    {\* an error at the path x, line and column not given
     [id |-> <<"p">>, file_path |-> <<"f">>, issues |->
         <<Issue(Unknown, Unknown, "error", <<"m", "k">>, <<"x">>)>>],
     \* a warning without path, inside the element with id x, and an
     \* information with another message
     [id |-> <<"p">>, file_path |-> <<"i">>, issues |->
         <<Issue(<<"3">>, <<"1">>, "warning", <<"m", "k">>, <<>>),
           Issue(Unknown, Unknown, "information", AllOK, <<"x">>)>>],
     \* an information without path, line or column
     [id |-> None, file_path |-> <<"n">>, issues |->
         <<Issue(Unknown, Unknown, "information", <<"m", "k">>, <<>>)>>],
     \* the "All OK" of a file without findings
     [id |-> <<"p">>, file_path |-> <<"s">>, issues |->
         <<Issue(Unknown, Unknown, "information", AllOK, <<>>)>>]}

NoOutcome == [id |-> None, file_path |-> <<>>, issues |-> <<>>]

MainStart(at) ==
    /\ pc = at
    /\ fail_level = 0
    /\ verbosity_level = 0
    /\ ignored_issues = <<>>
    /\ n_loaded = 0
    /\ resource_id = None
    /\ issues_for_resource = <<>>
    /\ element_ids = <<>>
    /\ ign_issues = <<>>
    /\ res_issues = <<>>
    /\ outcome = NoOutcome
    /\ idx = 0
    /\ results = <<>>
    /\ success = TRUE
    /\ exit_status = NoStatus

\* a faulty variant of silences: the comparison is turned around
silencesTurned(fail, verbosity) == fail < verbosity

\* parser.error("Chosen verbosity level would silence fatal issues")
silences(fail, verbosity) == fail > verbosity

CheckThresholds(fail_at, verbosity_at) ==
    /\ pc = "options"
    /\ fail_level' = issue_levels[fail_at]
    /\ verbosity_level' = issue_levels[verbosity_at]
    /\ IF silences(issue_levels[fail_at], issue_levels[verbosity_at])
       THEN pc' = "rejected" /\ exit_status' = 2
       ELSE pc' = "rules" /\ exit_status' = exit_status
    /\ UNCHANGED <<ignored_issues, n_loaded, resource_id, issues_for_resource,
                   element_ids, ign_issues, res_issues, outcome, idx, results,
                   success>>

LoadRules(doc) ==
    /\ pc = "rules"
    /\ n_loaded < MaxDocs
    /\ LET l == load(ignored_issues, doc)
       IN  /\ ignored_issues' = l.ii
           /\ IF l.exit
              THEN pc' = "exited" /\ exit_status' = 1
              ELSE pc' = pc /\ exit_status' = exit_status
    /\ n_loaded' = n_loaded + 1
    /\ UNCHANGED <<fail_level, verbosity_level, resource_id, issues_for_resource,
                   element_ids, ign_issues, res_issues, outcome, idx, results,
                   success>>

\* ResourceIssues.__init__ for the next OperationOutcome
BeginOutcome(o) ==
    /\ pc \in {"rules", "outcomes"}
    /\ Len(results) < MaxOutcomes
    /\ outcome' = o
    /\ idx' = 0
    /\ res_issues' = <<>>
    /\ resource_id' = o.id
    /\ issues_for_resource' = selectFrom(ignored_issues, 1, o.id, o.file_path, <<>>)
    /\ element_ids' = selectElementIds(ignored_issues, o.id, o.file_path)
    /\ ign_issues' = <<>>
    /\ pc' = "issues"
    /\ UNCHANGED <<fail_level, verbosity_level, ignored_issues, n_loaded,
                   results, success, exit_status>>

\* one round of the loop over the issues of the outcome
AddIssue ==
    /\ pc = "issues"
    /\ idx < Len(outcome.issues)
    /\ idx' = idx + 1
    /\ LET i == outcome.issues[idx + 1]
           a == addIssue(ignored_issues, issues_for_resource, element_ids,
                         ign_issues, res_issues, i)
       IN  IF isAllOK(outcome, i)
           THEN UNCHANGED <<pc, ignored_issues, ign_issues, res_issues, exit_status>>
           ELSE /\ ignored_issues' = a.ii
                /\ ign_issues' = a.ign
                /\ res_issues' = a.res
                /\ IF a.raised
                   THEN pc' = "raised" /\ exit_status' = 1
                   ELSE pc' = pc /\ exit_status' = exit_status
    /\ UNCHANGED <<fail_level, verbosity_level, n_loaded, resource_id,
                   issues_for_resource, element_ids, outcome, results, success>>

\* ResourceIssues.finish, and the outcome joins the results
Finish ==
    /\ pc = "issues"
    /\ idx = Len(outcome.issues)
    /\ LET f == finishSelectedId(ignored_issues, issues_for_resource, ign_issues,
                                 resource_id)
       IN  /\ ign_issues' = f
           /\ res_issues' = res_issues \o f
           /\ results' = Append(results, [file_path |-> outcome.file_path,
                                          id        |-> outcome.id,
                                          issues    |-> res_issues \o f])
    /\ pc' = "outcomes"
    /\ UNCHANGED <<fail_level, verbosity_level, ignored_issues, n_loaded,
                   resource_id, issues_for_resource, element_ids, outcome, idx,
                   success, exit_status>>

\* the results are printed and the script ends
Report ==
    /\ pc \in {"rules", "outcomes"}
    /\ LET all == flatten(results)
           k   == raisesAt(all)
       IN  IF k # 0
           THEN /\ success' = successAfter(all, k - 1, fail_level)
                /\ pc' = "crashed"
                /\ exit_status' = 1
           ELSE /\ success' = successAfter(all, Len(all), fail_level)
                /\ pc' = "done"
                /\ exit_status' = IF success' THEN 0 ELSE 1
    /\ UNCHANGED <<fail_level, verbosity_level, ignored_issues, n_loaded,
                   resource_id, issues_for_resource, element_ids, ign_issues,
                   res_issues, outcome, idx, results>>


(***************************************************************************)
(* SpecResolve: XMLElementIdMapper over a document, then hasForId's        *)
(* lookup.  A document is its sequence of start and end tags; the parser   *)
(* reports tag k at Position(k): per_line tags on a line, TagWidth columns *)
(* apart, lines counted from 1 and columns from 0 as expat does.           *)
(***************************************************************************)
MaxElements == 3     \* elements of a document
MaxPerLine  == 2     \* tags on one line
TagWidth    == 2     \* columns from one tag of a line to the next

ElementIdValues == {<<"a">>, <<"b">>}

StartTag(has_id, id) == [tag |-> "start", has_id |-> has_id, id |-> id]
EndTag               == [tag |-> "end", has_id |-> FALSE, id |-> None]

Tags == {StartTag(TRUE, v) : v \in ElementIdValues} \cup {StartTag(FALSE, None), EndTag}

\* number of elements open after the first k tags
RECURSIVE depth(_, _)
depth(tags, k) ==
    IF k = 0 THEN 0
    ELSE depth(tags, k - 1) + (IF tags[k].tag = "start" THEN 1 ELSE 0 - 1)

\* well-formed: one root element, closed by the last tag
wellFormed(tags) ==
    /\ Len(tags) >= 2
    /\ depth(tags, Len(tags)) = 0
    /\ \A k \in 1..(Len(tags) - 1) : depth(tags, k) > 0

Documents ==
    {[tags |-> t, per_line |-> n] :
        t \in {u \in SeqsUpTo(Tags, 2 * MaxElements) : wellFormed(u)},
        n \in 1..MaxPerLine}

NoDocument == [tags |-> <<>>, per_line |-> 1]

\* (CurrentLineNumber, CurrentColumnNumber) at tag k
Position(doc, k) ==
    <<1 + ((k - 1) \div doc.per_line), ((k - 1) % doc.per_line) * TagWidth>>

\* str(n) for n >= 0
RECURSIVE str(_)
str(n) ==
    IF n < 10 THEN <<Digits[n + 1]>>
    ELSE str(n \div 10) \o <<Digits[(n % 10) + 1]>>

QueryLines == {Unknown} \cup {str(n) : n \in 1..(2 * MaxElements)}
QueryCols  == {Unknown} \cup {str(n) : n \in 0..(TagWidth + 1)}

RsIdle ==
    /\ document = NoDocument
    /\ cursor = 0
    /\ elements = <<>>
    /\ xml_element_ids = <<>>
    /\ query = <<Unknown, Unknown>>
    /\ found = None
    /\ rpc = "off"

\* XMLElementIdMapper.start_handler: the open elements after the tag
start_handler(open, tag, position) ==
    Append(open, [start |-> position, has_id |-> tag.has_id, id |-> tag.id])

\* a faulty variant of end_handler: the element id is put in front of the list
end_handler_front(open, eids, position) ==
    LET curr_element == open[Len(open)]
    IN  IF curr_element.has_id
        THEN <<ElementId(curr_element.start, position, curr_element.id)>> \o eids
        ELSE eids

\* XMLElementIdMapper.end_handler: the element ids after the tag
end_handler(open, eids, position) ==
    LET curr_element == open[Len(open)]
    IN  IF curr_element.has_id
        THEN Append(eids, ElementId(curr_element.start, position, curr_element.id))
        ELSE eids

StartElement ==
    /\ rpc = "parsing"
    /\ cursor < Len(document.tags)
    /\ document.tags[cursor + 1].tag = "start"
    /\ elements' = start_handler(elements, document.tags[cursor + 1],
                                 Position(document, cursor + 1))
    /\ cursor' = cursor + 1
    /\ UNCHANGED <<document, xml_element_ids, query, found, rpc>>

EndElement ==
    /\ rpc = "parsing"
    /\ cursor < Len(document.tags)
    /\ document.tags[cursor + 1].tag = "end"
    /\ xml_element_ids' = end_handler(elements, xml_element_ids,
                                      Position(document, cursor + 1))
    /\ elements' = SubSeq(elements, 1, Len(elements) - 1)
    /\ cursor' = cursor + 1
    /\ UNCHANGED <<document, query, found, rpc>>

\* the lookup of hasForId in the element ids parse() returned
Lookup(line, col) ==
    /\ rpc = "parsing"
    /\ cursor = Len(document.tags)
    /\ query' = <<line, col>>
    /\ found' = locate(xml_element_ids, line, col)
    /\ rpc' = "looked up"
    /\ UNCHANGED <<document, cursor, elements, xml_element_ids>>

(***************************************************************************)
(* The specifications.                                                     *)
(***************************************************************************)
Init == MainStart("options") /\ WcIdle /\ RsIdle

Next ==
    \/ \E a \in LevelChoices, v \in DefaultVerbose :
           CheckThresholds(a, v) /\ UNCHANGED <<wcVars, rsVars>>
    \/ \E doc \in Docs : LoadRules(doc) /\ UNCHANGED <<wcVars, rsVars>>
    \/ \E o \in Outcomes : BeginOutcome(o) /\ UNCHANGED <<wcVars, rsVars>>
    \/ AddIssue /\ UNCHANGED <<wcVars, rsVars>>
    \/ Finish /\ UNCHANGED <<wcVars, rsVars>>
    \/ Report /\ UNCHANGED <<wcVars, rsVars>>

Spec == Init /\ [][Next]_vars

\* the start of the script alone, under every choice of -a and -v
NextStartup ==
    \/ \E a \in LevelChoices, v \in LevelChoices :
           CheckThresholds(a, v) /\ UNCHANGED <<wcVars, rsVars>>
    \/ \E doc \in Docs : LoadRules(doc) /\ UNCHANGED <<wcVars, rsVars>>

SpecStartup == Init /\ [][NextStartup]_vars

InitWildcard ==
    /\ MainStart("off")
    /\ RsIdle
    /\ wildcard_string \in SeqsUpTo(PatternChars, MaxLen)
    /\ subject \in SeqsUpTo(SubjectChars, MaxLen)
    /\ compiled = <<>>
    /\ matchResult = FALSE
    /\ wpc = "pattern"

NextWildcard ==
    \/ Compile /\ UNCHANGED <<mainVars, rsVars>>
    \/ Match /\ UNCHANGED <<mainVars, rsVars>>

SpecWildcard == InitWildcard /\ [][NextWildcard]_vars

InitResolve ==
    /\ MainStart("off")
    /\ WcIdle
    /\ document \in Documents
    /\ cursor = 0
    /\ elements = <<>>
    /\ xml_element_ids = <<>>
    /\ query = <<Unknown, Unknown>>
    /\ found = None
    /\ rpc = "parsing"

NextResolve ==
    \/ StartElement /\ UNCHANGED <<mainVars, wcVars>>
    \/ EndElement /\ UNCHANGED <<mainVars, wcVars>>
    \/ \E line \in QueryLines, col \in QueryCols :
           Lookup(line, col) /\ UNCHANGED <<mainVars, wcVars>>

SpecResolve == InitResolve /\ [][NextResolve]_vars


(***************************************************************************)
(* Properties.                                                             *)
(***************************************************************************)
\* ---- helpers of the properties
isSynthetic(item) == item.text \in {NotOccurred, WithoutReason}

countText(items, text) == Cardinality({k \in 1..Len(items) : items[k].text = text})

\* some severity fails the run at fail level a and is not shown at
\* verbosity level v
hiddenFailure(a, v) ==
    \E sev \in DOMAIN issue_levels :
        /\ issue_levels[sev] <= a
        /\ ~(issue_levels[sev] <= v)

\* a rule required to occur under a resource key with a wildcard
wildcardRequired(ii) ==
    \E t \in rulePlaces(ii) :
        /\ contains(ii[t[1]].key, "*")
        /\ ruleAt(ii, t).require_occurence

\* C5 as stated: with fail threshold error and verbosity warning the
\* configuration is rejected at the option check.
C5_ScenarioERejected ==
    (/\ pc # "options"
     /\ fail_level = issue_levels["error"]
     /\ verbosity_level = issue_levels["warning"])
    => pc = "rejected"

\* C5 amended: the configuration is rejected exactly when some severity that
\* fails the run would not be shown, that is when the fail threshold is a
\* less grave level than the verbosity threshold (fail warning with verbosity
\* error is rejected, fail error with verbosity warning is accepted), and a
\* rejected run has loaded no rule.
C5_RejectedIffHidden ==
    pc # "options" =>
        /\ (pc = "rejected") <=> hiddenFailure(fail_level, verbosity_level)
        /\ pc = "rejected" => (n_loaded = 0 /\ exit_status # 0)

C5_Witness ==
    /\ pc = "rejected"
    /\ fail_level = issue_levels["warning"]
    /\ verbosity_level = issue_levels["error"]

\* C4: a document that declares ignored issues under a resource key with a
\* wildcard while occurrence is required ends the run with status 1 while the
\* rules are loaded, before any outcome; so whenever an outcome is at hand
\* or was finished, no rule of the rule set is both required to occur and
\* under a resource key with a wildcard.
C4_WildcardRequiredExits ==
    /\ pc = "exited" => (exit_status = 1 /\ results = <<>> /\ outcome = NoOutcome)
    /\ pc \in {"issues", "outcomes", "raised", "done", "crashed"}
           => ~wildcardRequired(ignored_issues)

C4_Witness ==
    /\ pc = "exited"
    /\ n_loaded = 2
    /\ ignored_issues # <<>>

\* C6: when the script ends after the reporting loop, its exit status is not
\* zero if and only if some outcome holds a kept issue at the fail level or
\* graver, or a synthetic defect (reasonless or not occurred suppression);
\* the status of a run ended by the AttributeError of the reporting loop
\* counts as not zero.
C6_VerdictIffFailingIssue ==
    pc \in {"done", "crashed"} =>
        /\ exit_status \in {0, 1}
        /\ (exit_status # 0) <=>
               \E r \in 1..Len(results) : \E k \in 1..Len(results[r].issues) :
                   LET item == results[r].issues[k]
                   IN  \/ isSynthetic(item)
                       \/ issue_levels[item.severity] <= fail_level

C6_Witness ==
    /\ pc = "done"
    /\ exit_status = 0
    /\ \E r \in 1..Len(results) : \E k \in 1..Len(results[r].issues) :
           results[r].issues[k].severity = "warning"


\* ---- the outcome at hand
\* the rule set as it was loaded: no rule handled
resetHandled(ii) ==
    [g \in 1..Len(ii) |->
        [key |-> ii[g].key,
         val |-> [p \in 1..Len(ii[g].val) |->
                    [key |-> ii[g].val[p].key,
                     val |-> [r \in 1..Len(ii[g].val[p].val) |->
                                [ii[g].val[p].val[r] EXCEPT !.handled = FALSE]]]]]]

\* the element id the line and column of issue i resolve to in the file of
\* outcome o, if any
resolves(o, i) == truthy(locate(FileElementIds(o.file_path), i.line, i.col))

\* issue i of outcome o matches the rule at place t: the location pattern
\* matches its expression or its resolved element id, and its message starts
\* with the message of the rule
issueMatchesRule(ii, o, i, t) ==
    /\ ruleTakes(ruleAt(ii, t), i.text)
    /\ \/ regexMatch(ii[t[1]].val[t[2]].key, i.expression)
       \/ /\ resolves(o, i)
          /\ regexMatch(ii[t[1]].val[t[2]].key,
                        locate(FileElementIds(o.file_path), i.line, i.col))

\* the rules required to occur whose resource pattern matches outcome o and
\* that no issue of o matches
staleRules(ii, o) ==
    {t \in rulePlaces(ii) :
        /\ ruleAt(ii, t).require_occurence
        /\ resourceMatches(ii[t[1]].key, o.id, o.file_path)
        /\ \A k \in 1..Len(o.issues) : ~issueMatchesRule(ii, o, o.issues[k], t)}

justFinished == pc = "outcomes" /\ results # <<>>

lastIssues == results[Len(results)].issues

\* C1 as stated: when an outcome was finished, its issue list holds a "not
\* occurred" defect for every rule that is required to occur, whose resource
\* pattern matches the outcome and that none of its issues matches.
C1_StaleRuleReported ==
    justFinished =>
        countText(lastIssues, NotOccurred) >= Cardinality(staleRules(ignored_issues, outcome))

\* C2 as stated: after an issue was suppressed by a rule without a reason,
\* the defect is in the issue list as a regular issue and the script runs
\* through the reporting loop and ends with the failure verdict.
C2_ReasonlessRunsToVerdict ==
    (/\ pc \in {"done", "crashed"}
     /\ \E r \in 1..Len(results) : countText(results[r].issues, WithoutReason) > 0)
    => /\ pc = "done"
       /\ success = FALSE
       /\ exit_status # 0
       /\ \A r \in 1..Len(results) : \A k \in 1..Len(results[r].issues) :
              results[r].issues[k].kind = "Issue"

\* C3 as stated: once the rules for an outcome are selected, the rule list
\* of every location key of every matching resource group is in the active
\* table.
C3_AllMatchingGroupsActive ==
    pc = "issues" =>
        \A g \in 1..Len(ignored_issues) :
            resourceMatches(ignored_issues[g].key, outcome.id, outcome.file_path)
            => \A p \in 1..Len(ignored_issues[g].val) :
                   \E e \in 1..Len(issues_for_resource) :
                       /\ issues_for_resource[e].key = ignored_issues[g].val[p].key
                       /\ issues_for_resource[e].val = [g |-> g, p |-> p]

\* C8 as stated: the "not occurred" defects of a finished outcome are those
\* the rule set as loaded gives for that outcome alone.
C8_HandledDoesNotLeak ==
    justFinished =>
        countText(lastIssues, NotOccurred)
            = countText(processOutcome(resetHandled(ignored_issues), outcome), NotOccurred)

\* C10 as stated: an issue with an empty expression whose line and column
\* resolve to no element id is never suppressed.
C10_EmptyExpressionKept ==
    pc = "issues" =>
        \A k \in 1..idx :
            LET i == outcome.issues[k]
            IN  (/\ i.expression = <<>>
                 /\ ~isAllOK(outcome, i)
                 /\ ~resolves(outcome, i))
                => \E j \in 1..Len(res_issues) : res_issues[j] = i

\* ---- SpecWildcard
\* p with every * replaced by some run of characters gives s
RECURSIVE wildcardMatches(_, _)
wildcardMatches(p, s) ==
    IF p = <<>> THEN s = <<>>
    ELSE IF Head(p) = "*"
         THEN \E k \in 0..Len(s) : wildcardMatches(Tail(p), SubSeq(s, k + 1, Len(s)))
    ELSE s # <<>> /\ Head(s) = Head(p) /\ wildcardMatches(Tail(p), Tail(s))

\* C7 as stated: the compiled wildcard accepts a string if and only if the
\* string is the wildcard with every * replaced by some run of characters.
C7_WildcardSemantics ==
    wpc = "matched" => (matchResult <=> wildcardMatches(wildcard_string, subject))

\* ---- SpecResolve
before(a, b) == a[1] < b[1] \/ (a[1] = b[1] /\ a[2] <= b[2])

\* the end tag of the element the start tag s opens
closing(tags, s) ==
    CHOOSE e \in (s + 1)..Len(tags) :
        /\ depth(tags, e) = depth(tags, s - 1)
        /\ \A m \in (s + 1)..(e - 1) : depth(tags, m) > depth(tags, s - 1)

\* the start tags of the identified elements of doc whose extent holds the
\* point q
holding(doc, q) ==
    {s \in 1..Len(doc.tags) :
        /\ doc.tags[s].tag = "start"
        /\ doc.tags[s].has_id
        /\ isInt(q[1]) /\ isInt(q[2])
        /\ before(Position(doc, s), <<toInt(q[1]), toInt(q[2])>>)
        /\ before(<<toInt(q[1]), toInt(q[2])>>, Position(doc, closing(doc.tags, s)))}

innermost(S) == CHOOSE s \in S : \A u \in S : u <= s

\* C9: the lookup gives the id of the innermost identified element whose
\* extent holds the line and column, and no id when no extent holds them.
C9_InnermostElementWins ==
    rpc = "looked up" =>
        LET H == holding(document, query)
        IN  IF H = {} THEN ~truthy(found)
            ELSE found = document.tags[innermost(H)].id

C9_Witness ==
    /\ rpc = "looked up"
    /\ \E s \in holding(document, query) : \E u \in holding(document, query) :
           /\ s < u
           /\ document.tags[s].id # document.tags[u].id
           /\ found = document.tags[u].id

====
